---- MODULE Spec2Model ----
(***************************************************************************)
(* Model of clarity's Signature (src/src/signature.rs) and PrivateKey      *)
(* (src/src/private_key.rs).                                               *)
(*                                                                         *)
(* A Uint256 is held the way a big unsigned integer is stored: a sequence  *)
(* of 16-bit limbs, least significant first, without high zero limbs       *)
(* (zero is the empty sequence).  Byte strings are sequences of 0..255,    *)
(* text is a sequence of characters (one-character strings, or a U+xxxx    *)
(* token for a character outside ASCII).                                   *)
(***************************************************************************)
EXTENDS Integers, Sequences, FiniteSets, TLC

VARIABLES sig, arg, key, op, result

vars == <<sig, arg, key, op, result>>

\* ------------------------------------------------------------------------
\* Bounds of the model

\* v ranges over 0..MaxSmallV (and the values listed in BigVs)
MaxSmallV == 38
\* chain ids range over 0..MaxChainId (and the values listed in BigChainIds)
MaxChainId == 2
\* from_str is given texts of byte length 64 - MaxLenDelta .. 64 + MaxLenDelta
MaxLenDelta == 2

\* ------------------------------------------------------------------------
\* Big unsigned integers (num256::Uint256 as used by signature.rs)

Base == 256 * 256

RECURSIVE Normalize(_)
Normalize(a) ==
    IF a = <<>> THEN <<>>
    ELSE IF a[Len(a)] = 0 THEN Normalize(SubSeq(a, 1, Len(a) - 1))
    ELSE a

RECURSIVE FromNat(_)
FromNat(n) == IF n = 0 THEN <<>> ELSE <<n % Base>> \o FromNat(n \div Base)

Zero == <<>>

RECURSIVE CmpFrom(_, _, _)
CmpFrom(a, b, i) ==
    IF i = 0 THEN 0
    ELSE IF a[i] < b[i] THEN -1
    ELSE IF a[i] > b[i] THEN 1
    ELSE CmpFrom(a, b, i - 1)

Cmp(a, b) ==
    IF Len(a) < Len(b) THEN -1
    ELSE IF Len(a) > Len(b) THEN 1
    ELSE CmpFrom(a, b, Len(a))

Lt(a, b) == Cmp(a, b) < 0
Gt(a, b) == Cmp(a, b) > 0
Ge(a, b) == Cmp(a, b) >= 0

RECURSIVE AddCarry(_, _, _)
AddCarry(a, b, c) ==
    IF a = <<>> /\ b = <<>> THEN (IF c = 0 THEN <<>> ELSE <<c>>)
    ELSE LET x == (IF a = <<>> THEN 0 ELSE Head(a))
                  + (IF b = <<>> THEN 0 ELSE Head(b)) + c
         IN <<x % Base>> \o AddCarry(IF a = <<>> THEN <<>> ELSE Tail(a),
                                     IF b = <<>> THEN <<>> ELSE Tail(b),
                                     x \div Base)

Add(a, b) == AddCarry(a, b, 0)

RECURSIVE SubBorrow(_, _, _)
SubBorrow(a, b, c) ==
    IF a = <<>> THEN <<>>
    ELSE LET x == Head(a) - (IF b = <<>> THEN 0 ELSE Head(b)) - c
         IN <<x % Base>> \o SubBorrow(Tail(a),
                                      IF b = <<>> THEN <<>> ELSE Tail(b),
                                      IF x < 0 THEN 1 ELSE 0)

\* Unsigned subtraction.  A difference below zero is not representable: the
\* operator aborts the thread (a Rust panic), it neither wraps nor saturates.
Sub(a, b) ==
    IF Lt(a, b) THEN [panic |-> TRUE, val |-> <<>>]
    ELSE [panic |-> FALSE, val |-> Normalize(SubBorrow(a, b, 0))]

\* Long division of a by the small number d, from the most significant limb.
RECURSIVE DivFrom(_, _, _, _)
DivFrom(a, d, i, rem) ==
    IF i = 0 THEN <<>>
    ELSE LET x == rem * Base + a[i]
         IN DivFrom(a, d, i - 1, x % d) \o <<x \div d>>

Div(a, d) == Normalize(DivFrom(a, d, Len(a), 0))

\* BigUint::to_bytes_be: the minimal big-endian bytes; zero is the one byte 0.
RECURSIVE StripZeros(_)
StripZeros(bs) ==
    IF Len(bs) > 1 /\ Head(bs) = 0 THEN StripZeros(Tail(bs)) ELSE bs

RECURSIVE LimbBytesBE(_)
LimbBytesBE(a) ==
    IF a = <<>> THEN <<>>
    ELSE LimbBytesBE(Tail(a)) \o <<Head(a) \div 256, Head(a) % 256>>

to_bytes_be(a) == IF a = <<>> THEN <<0>> ELSE StripZeros(LimbBytesBE(a))

\* Into<[u8; 32]> for Uint256: big-endian, left-padded with zeros to 32 bytes
\* (values of a Uint256 fit in 32 bytes).
into_32(a) ==
    LET bytes == to_bytes_be(a)
    IN [i \in 1..(32 - Len(bytes)) |-> 0] \o bytes

\* Uint256 from big-endian bytes (the inverse reading of a byte string).
RECURSIVE LimbsOfBytesBE(_)
LimbsOfBytesBE(bs) ==
    IF bs = <<>> THEN <<>>
    ELSE IF Len(bs) = 1 THEN <<bs[1]>>
    ELSE <<bs[Len(bs) - 1] * 256 + bs[Len(bs)]>>
         \o LimbsOfBytesBE(SubSeq(bs, 1, Len(bs) - 2))

from_bytes_be(bs) == Normalize(LimbsOfBytesBE(bs))

\* The order of the secp256k1 group,
\* FFFFFFFF FFFFFFFF FFFFFFFF FFFFFFFE BAAEDCE6 AF48A03B BFD25E8C D0364141
SECPK1N ==
    <<16705, 53302, 24204, 49106, 41019, 44872, 56550, 47790,
      65534, 65535, 65535, 65535, 65535, 65535, 65535, 65535>>

\* 2^256 - 1, the largest Uint256
MaxUint256 == [i \in 1..16 |-> Base - 1]

\* ------------------------------------------------------------------------
\* Outcomes of the operations

Bool(b) == [kind |-> "Bool", val |-> b]
None == [kind |-> "None", val |-> <<>>]
Some(x) == [kind |-> "Some", val |-> x]
Ok(x) == [kind |-> "Ok", val |-> x]
Err(e) == [kind |-> "Err", val |-> e]
Str(s) == [kind |-> "String", val |-> s]
Panic == [kind |-> "Panic", val |-> <<>>]
NoResult == [kind |-> "NoResult", val |-> <<>>]

\* ------------------------------------------------------------------------
\* utils::bytes_to_hex_str: two lowercase hex digits per byte

HexDigits ==
    <<"0", "1", "2", "3", "4", "5", "6", "7",
      "8", "9", "a", "b", "c", "d", "e", "f">>

RECURSIVE bytes_to_hex_str(_)
bytes_to_hex_str(bs) ==
    IF bs = <<>> THEN <<>>
    ELSE <<HexDigits[(Head(bs) \div 16) + 1], HexDigits[(Head(bs) % 16) + 1]>>
         \o bytes_to_hex_str(Tail(bs))

\* utils::hex_str_to_bytes: the bytes of a text of hex digits, two digits per
\* byte; a decode error if any character is not a hex digit.
HexValues ==
    [c \in {"0", "1", "2", "3", "4", "5", "6", "7", "8", "9",
            "a", "b", "c", "d", "e", "f", "A", "B", "C", "D", "E", "F"} |->
        CASE c = "0" -> 0 [] c = "1" -> 1 [] c = "2" -> 2 [] c = "3" -> 3
          [] c = "4" -> 4 [] c = "5" -> 5 [] c = "6" -> 6 [] c = "7" -> 7
          [] c = "8" -> 8 [] c = "9" -> 9
          [] c \in {"a", "A"} -> 10 [] c \in {"b", "B"} -> 11
          [] c \in {"c", "C"} -> 12 [] c \in {"d", "D"} -> 13
          [] c \in {"e", "E"} -> 14 [] c \in {"f", "F"} -> 15]

IsHexChar(c) == c \in DOMAIN HexValues

RECURSIVE HexPairs(_)
HexPairs(s) ==
    IF s = <<>> THEN <<>>
    ELSE IF Len(s) = 1 THEN <<HexValues[s[1]]>>
    ELSE <<HexValues[s[1]] * 16 + HexValues[s[2]]>>
         \o HexPairs(SubSeq(s, 3, Len(s)))

hex_str_to_bytes(s) ==
    IF \E i \in 1..Len(s) : ~IsHexChar(s[i]) THEN Err("DecodeError")
    ELSE Ok(HexPairs(s))

\* ------------------------------------------------------------------------
\* Signature

Signature_new(v, r, s) == [v |-> v, r |-> r, s |-> s]

Signature_default == [v |-> Zero, r |-> Zero, s |-> Zero]

is_valid_strict_r(self) ==
    IF Ge(self.s, SECPK1N) THEN FALSE
    ELSE IF \/ Gt(self.r, SECPK1N)
            \/ Ge(self.s, SECPK1N)
            \/ self.r = Zero
            \/ self.s = Zero
         THEN FALSE
    ELSE TRUE

is_valid(self) ==
    IF Ge(self.s, SECPK1N) THEN FALSE
    ELSE IF \/ Ge(self.r, SECPK1N)
            \/ Ge(self.s, SECPK1N)
            \/ self.r = Zero
            \/ self.s = Zero
         THEN FALSE
    ELSE TRUE

\* (v / 2) - 17, the decrement of v left out
network_id_no_decrement(self) ==
    IF self.r = Zero /\ self.s = Zero THEN Some(self.v)
    ELSE IF self.v = FromNat(27) \/ self.v = FromNat(28) THEN None
    ELSE LET b == Sub(Div(self.v, 2), FromNat(17))
         IN IF b.panic THEN Panic ELSE Some(b.val)

\* the legacy test made before the test of the unsigned form
network_id_legacy_first(self) ==
    IF self.v = FromNat(27) \/ self.v = FromNat(28) THEN None
    ELSE IF self.r = Zero /\ self.s = Zero THEN Some(self.v)
    ELSE LET a == Sub(self.v, FromNat(1))
         IN IF a.panic THEN Panic
            ELSE LET b == Sub(Div(a.val, 2), FromNat(17))
                 IN IF b.panic THEN Panic ELSE Some(b.val)

\* only v = 27 taken as legacy
network_id_only_27(self) ==
    IF self.r = Zero /\ self.s = Zero THEN Some(self.v)
    ELSE IF self.v = FromNat(27) THEN None
    ELSE LET a == Sub(self.v, FromNat(1))
         IN IF a.panic THEN Panic
            ELSE LET b == Sub(Div(a.val, 2), FromNat(17))
                 IN IF b.panic THEN Panic ELSE Some(b.val)

network_id(self) ==
    IF self.r = Zero /\ self.s = Zero THEN Some(self.v)
    ELSE IF self.v = FromNat(27) \/ self.v = FromNat(28) THEN None
    ELSE LET a == Sub(self.v, FromNat(1))
         IN IF a.panic THEN Panic
            ELSE LET b == Sub(Div(a.val, 2), FromNat(17))
                 IN IF b.panic THEN Panic ELSE Some(b.val)

check_low_s_metropolis(self) ==
    IF Gt(self.s, Div(SECPK1N, 2)) THEN Err("InvalidS") ELSE Ok(<<>>)

\* the test of s = 0 left out
check_low_s_homestead_no_zero(self) ==
    IF Gt(self.s, Div(SECPK1N, 2)) THEN Err("InvalidS") ELSE Ok(<<>>)

check_low_s_homestead(self) ==
    IF Gt(self.s, Div(SECPK1N, 2)) \/ self.s = Zero
    THEN Err("InvalidS")
    ELSE Ok(<<>>)

\* all the bytes of v appended
to_string_all_of_v(self) ==
    LET r == into_32(self.r)
        s == into_32(self.s)
        v == to_bytes_be(self.v)
        wtr == r \o s \o v
    IN <<"0", "x">> \o bytes_to_hex_str(wtr)

\* the first byte of v appended
to_string_first_of_v(self) ==
    LET r == into_32(self.r)
        s == into_32(self.s)
        v == to_bytes_be(self.v)
        wtr == r \o s \o SubSeq(v, 1, 1)
    IN <<"0", "x">> \o bytes_to_hex_str(wtr)

to_string(self) ==
    LET r == into_32(self.r)
        s == into_32(self.s)
        v == to_bytes_be(self.v)
        wtr == r \o s \o SubSeq(v, Len(v), Len(v))
    IN <<"0", "x">> \o bytes_to_hex_str(wtr)

\* ------------------------------------------------------------------------
\* The signatures the operations are applied to

TwoPow64Minus1 == [i \in 1..4 |-> Base - 1]

HalfN == Div(SECPK1N, 2)

BigChainIds ==
    { FromNat(1337), FromNat(65536), TwoPow64Minus1,
      Div(Sub(MaxUint256, FromNat(36)).val, 2) }

ChainIds == { FromNat(n) : n \in 0..MaxChainId } \cup BigChainIds

\* EIP-155: v = 2 * chain_id + 35 or 2 * chain_id + 36
EipV(c, parity) == Add(Add(c, c), FromNat(35 + parity))

BigVs ==
    { FromNat(255), FromNat(256), FromNat(257), FromNat(4660),
      FromNat(65536), MaxUint256 }

Vs == { FromNat(n) : n \in 0..MaxSmallV }
      \cup { EipV(c, p) : c \in ChainIds, p \in {0, 1} }
      \cup BigVs

Rs == { Zero, FromNat(1), FromNat(2),
        Sub(SECPK1N, FromNat(1)).val, SECPK1N, Add(SECPK1N, FromNat(1)),
        MaxUint256 }

Ss == { Zero, FromNat(1), FromNat(3), HalfN, Add(HalfN, FromNat(1)),
        Sub(SECPK1N, FromNat(1)).val, SECPK1N, MaxUint256 }

NoArg == [kind |-> "none", val |-> <<>>]
NoKey == <<>>

InitSig ==
    /\ sig \in { Signature_new(v, r, s) : v \in Vs, r \in Rs, s \in Ss }
    /\ arg = NoArg
    /\ key = NoKey
    /\ op = "init"
    /\ result = NoResult

IsValid ==
    /\ op' = "is_valid"
    /\ result' = Bool(is_valid(sig))
    /\ UNCHANGED <<sig, arg, key>>

NetworkId ==
    /\ op' = "network_id"
    /\ result' = network_id(sig)
    /\ UNCHANGED <<sig, arg, key>>

CheckLowSMetropolis ==
    /\ op' = "check_low_s_metropolis"
    /\ result' = check_low_s_metropolis(sig)
    /\ UNCHANGED <<sig, arg, key>>

CheckLowSHomestead ==
    /\ op' = "check_low_s_homestead"
    /\ result' = check_low_s_homestead(sig)
    /\ UNCHANGED <<sig, arg, key>>

ToCanonicalHex ==
    /\ op' = "to_string"
    /\ result' = Str(to_string(sig))
    /\ UNCHANGED <<sig, arg, key>>

NextSig ==
    \/ IsValid
    \/ NetworkId
    \/ CheckLowSMetropolis
    \/ CheckLowSHomestead
    \/ ToCanonicalHex

SpecSig == InitSig /\ [][NextSig]_vars

\* ------------------------------------------------------------------------
\* PrivateKey

\* str::len counts the bytes of the UTF-8 encoding, not the characters
Utf8Len(c) ==
    IF c = "U+012345" THEN 4
    ELSE IF c = "U+00E9" THEN 2
    ELSE 1

RECURSIVE str_len(_)
str_len(s) == IF s = <<>> THEN 0 ELSE Utf8Len(Head(s)) + str_len(Tail(s))

\* the text decoded before its length is tested
from_str_decode_first(s) ==
    LET bytes == hex_str_to_bytes(s)
    IN IF bytes.kind = "Err" THEN bytes
       ELSE IF str_len(s) # 64 THEN Err("InvalidLengthError")
       ELSE IF Len(bytes.val) # 32 THEN Panic
       ELSE Ok(bytes.val)

from_str(s) ==
    IF str_len(s) # 64 THEN Err("InvalidLengthError")
    ELSE LET bytes == hex_str_to_bytes(s)
         IN IF bytes.kind = "Err" THEN bytes
            ELSE IF Len(bytes.val) # 32 THEN Panic
            ELSE Ok(bytes.val)

PrivateKey_new == [i \in 1..32 |-> 0]

from_slice(slice) ==
    IF Len(slice) # 32 THEN Err("InvalidPrivKey") ELSE Ok(slice)

to_bytes(self) == self

\* secp256k1 SecretKey::from_slice: the scalar of 32 big-endian bytes, refused
\* when it is zero or not below the order of the group.
SecretKey_from_slice(data) ==
    LET scalar == from_bytes_be(data)
    IN IF Len(data) # 32 \/ scalar = Zero \/ Ge(scalar, SECPK1N)
       THEN Err("InvalidPrivateKey")
       ELSE Ok(scalar)

\* The uncompressed public key of a secret key: the prefix byte 4 and the 64
\* bytes of the point sk * G, which the model does not compute.  The point of
\* a secret key is never the point at infinity, so the 64 bytes are not zeros.
serialize_uncompressed(sk) == [prefix |-> 4, xy |-> <<"point", sk>>]

AllZeroXY == [i \in 1..64 |-> 0]

\* The last 20 bytes of the Keccak-256 digest of the 64 bytes, not computed.
Address_of(xy) == <<"keccak256[12..]", xy>>

\* the error of the secret key unwrapped instead of returned
to_public_key_unwrap(self) ==
    LET sk == SecretKey_from_slice(self)
    IN IF sk.kind = "Err" THEN Panic
       ELSE LET pkey == serialize_uncompressed(sk.val)
            IN IF pkey.xy = AllZeroXY THEN Err("ZeroPrivKey")
               ELSE Ok(Address_of(pkey.xy))

to_public_key(self) ==
    LET sk == SecretKey_from_slice(self)
    IN IF sk.kind = "Err" THEN sk
       ELSE LET pkey == serialize_uncompressed(sk.val)
            IN IF pkey.xy = AllZeroXY THEN Err("ZeroPrivKey")
               ELSE Ok(Address_of(pkey.xy))

\* ------------------------------------------------------------------------
\* The texts and slices the keys are made from

\* c85ef7d7 9691fe79 573b1a70 64c19c1a 9819ebdb d1faaab1 a8ec9234 4438aaf4
TestKey ==
    <<200, 94, 247, 215, 150, 145, 254, 121, 87, 59, 26, 112, 100, 193, 156, 26,
      152, 25, 235, 219, 209, 250, 170, 177, 168, 236, 146, 52, 68, 56, 170, 244>>

KeyBytes ==
    { into_32(x) : x \in { Zero, FromNat(1), Sub(SECPK1N, FromNat(1)).val,
                           SECPK1N, Add(SECPK1N, FromNat(1)), MaxUint256 } }
    \cup { TestKey }

Lengths == (64 - MaxLenDelta)..(64 + MaxLenDelta)

NonHexChars == { "g", "x", " ", "U+00E9", "U+012345" }

Filler == [i \in 1..(MaxLenDelta + 4) |-> "0"]

\* the first n characters of the hex text of k, continued with zeros
HexText(k, n) == SubSeq(bytes_to_hex_str(k) \o Filler, 1, n)

Texts ==
    { HexText(k, n) : k \in KeyBytes, n \in Lengths }
    \cup { <<c>> \o HexText(k, n - Utf8Len(c)) :
              k \in KeyBytes, n \in Lengths, c \in NonHexChars }
    \cup { HexText(k, n - Utf8Len(c)) \o <<c>> :
              k \in KeyBytes, n \in Lengths, c \in NonHexChars }
    \cup { <<>>, <<"a", "b", "c", "d", "e", "f">>,
           <<"A", "B">> \o HexText(TestKey, 62) }

Slices ==
    KeyBytes
    \cup { SubSeq(k, 1, n) : k \in KeyBytes, n \in {0, 31} }
    \cup { k \o <<0>> : k \in KeyBytes }

KeyArgs ==
    { [kind |-> "str", val |-> s] : s \in Texts }
    \cup { [kind |-> "bytes", val |-> b] : b \in Slices }

InitKey ==
    /\ sig = Signature_default
    /\ arg \in KeyArgs
    /\ key = NoKey
    /\ op = "init"
    /\ result = NoResult

FromStr ==
    /\ arg.kind = "str"
    /\ op' = "from_str"
    /\ result' = from_str(arg.val)
    /\ key' = IF result'.kind = "Ok" THEN result'.val ELSE key
    /\ UNCHANGED <<sig, arg>>

FromSlice ==
    /\ arg.kind = "bytes"
    /\ op' = "from_slice"
    /\ result' = from_slice(arg.val)
    /\ key' = IF result'.kind = "Ok" THEN result'.val ELSE key
    /\ UNCHANGED <<sig, arg>>

New ==
    /\ op' = "new"
    /\ result' = Ok(PrivateKey_new)
    /\ key' = PrivateKey_new
    /\ UNCHANGED <<sig, arg>>

ToBytes ==
    /\ key # NoKey
    /\ op' = "to_bytes"
    /\ result' = Ok(to_bytes(key))
    /\ UNCHANGED <<sig, arg, key>>

ToPublicKey ==
    /\ key # NoKey
    /\ op' = "to_public_key"
    /\ result' = to_public_key(key)
    /\ UNCHANGED <<sig, arg, key>>

NextKey ==
    \/ FromStr
    \/ FromSlice
    \/ New
    \/ ToBytes
    \/ ToPublicKey

SpecKey == InitKey /\ [][NextKey]_vars

\* ------------------------------------------------------------------------
\* Properties of PrivateKey

KeyScalar == from_bytes_be(key)

\* C8: to_public_key on a key whose scalar is zero or not below the order
\* returns the error InvalidPrivateKey and no address.
C8_BadScalarIsError ==
    (op = "to_public_key" /\ (KeyScalar = Zero \/ Ge(KeyScalar, SECPK1N)))
        => (result.kind = "Err" /\ result.val = "InvalidPrivateKey")

C8_Witness ==
    /\ op = "to_public_key"
    /\ key = PrivateKey_new
    /\ result.kind = "Err"

HasNonHex(s) == \E i \in 1..Len(s) : ~IsHexChar(s[i])

\* C9: from_str fails with the length error for every text whose length is
\* not 64, whatever its characters; a text of length 64 with a character that
\* is no hex digit fails with a decode error; only 64 hex digits give a key.
C9_FromStrErrors ==
    op = "from_str" =>
        /\ str_len(arg.val) # 64 =>
              (result.kind = "Err" /\ result.val = "InvalidLengthError")
        /\ (str_len(arg.val) = 64 /\ HasNonHex(arg.val)) =>
              (result.kind = "Err" /\ result.val = "DecodeError")
        /\ result.kind = "Ok" <=>
              (str_len(arg.val) = 64 /\ ~HasNonHex(arg.val))
        /\ result.kind = "Ok" => (Len(result.val) = 32 /\ key = result.val)

C9_Witness ==
    /\ op = "from_str"
    /\ str_len(arg.val) = 65
    /\ HasNonHex(arg.val)
    /\ result.kind = "Err"
    /\ result.val = "InvalidLengthError"


\* ------------------------------------------------------------------------
\* Properties of Signature

InRange(x) == Lt(Zero, x) /\ Lt(x, SECPK1N)

\* C1: is_valid is true if and only if 0 < r < N and 0 < s < N, whatever v is.
C1_IsValidIffInRange ==
    op = "is_valid" => (result.val <=> (InRange(sig.r) /\ InRange(sig.s)))

C1_Witness ==
    /\ op = "is_valid"
    /\ sig.r = SECPK1N
    /\ sig.s = FromNat(1)
    /\ result.val = FALSE

\* C2: with r and s nonzero and v = 2c + 35 or 2c + 36, network_id is Some(c).
C2_NetworkIdRoundTrip ==
    \A c \in ChainIds, p \in {0, 1} :
        (op = "network_id" /\ sig.r # Zero /\ sig.s # Zero /\ sig.v = EipV(c, p))
            => (result.kind = "Some" /\ result.val = c)

C2_Witness ==
    /\ op = "network_id"
    /\ sig.r # Zero
    /\ sig.s # Zero
    /\ sig.v = EipV(TwoPow64Minus1, 1)
    /\ result.kind = "Some"
    /\ result.val = TwoPow64Minus1

\* C3: with r = 0 and s = 0, network_id is Some(v), v unchanged, for every v,
\* 27 and 28 included.
C3_UnsignedGivesV ==
    (op = "network_id" /\ sig.r = Zero /\ sig.s = Zero)
        => (result.kind = "Some" /\ result.val = sig.v)

C3_Witness ==
    /\ op = "network_id"
    /\ sig.r = Zero
    /\ sig.s = Zero
    /\ sig.v = FromNat(27)
    /\ result.kind = "Some"
    /\ result.val = FromNat(27)

\* C4: with v = 27 or v = 28 and r, s nonzero, network_id is None.
C4_LegacyGivesNone ==
    (/\ op = "network_id"
     /\ sig.v \in {FromNat(27), FromNat(28)}
     /\ sig.r # Zero
     /\ sig.s # Zero)
        => result.kind = "None"

C4_Witness ==
    /\ op = "network_id"
    /\ sig.v = FromNat(28)
    /\ sig.r # Zero
    /\ sig.s # Zero
    /\ result.kind = "None"

\* s > floor(N / 2), stated without a division: 2 * s > N
HighS(s) == Gt(Add(s, s), SECPK1N)

IsInvalidS(x) == x.kind = "Err" /\ x.val = "InvalidS"

\* C5: check_low_s_metropolis fails with InvalidS exactly when s > floor(N/2),
\* check_low_s_homestead exactly when s > floor(N/2) or s = 0; neither reads
\* v or r, and they differ for s = 0 only.
C5_LowSChecks ==
    /\ op = "check_low_s_metropolis" =>
          /\ IsInvalidS(result) <=> HighS(sig.s)
          /\ ~IsInvalidS(result) => result.kind = "Ok"
    /\ op = "check_low_s_homestead" =>
          /\ IsInvalidS(result) <=> (HighS(sig.s) \/ sig.s = Zero)
          /\ ~IsInvalidS(result) => result.kind = "Ok"

C5_Witness ==
    /\ op = "check_low_s_homestead"
    /\ sig.s = Zero
    /\ IsInvalidS(result)

LowByte(v) == IF v = <<>> THEN 0 ELSE v[1] % 256

\* C7: in the output of to_string, bytes 0-31 are r and bytes 32-63 are s,
\* big-endian padded with zeros, and byte 64 is v mod 256.
C7_HexLayout ==
    op = "to_string" =>
        LET bytes == hex_str_to_bytes(SubSeq(result.val, 3, Len(result.val)))
        IN /\ bytes.kind = "Ok"
           /\ Len(bytes.val) = 65
           /\ from_bytes_be(SubSeq(bytes.val, 1, 32)) = sig.r
           /\ from_bytes_be(SubSeq(bytes.val, 33, 64)) = sig.s
           /\ bytes.val[65] = LowByte(sig.v)

C7_Witness ==
    /\ op = "to_string"
    /\ sig.v = FromNat(4660)
    /\ sig.r = SECPK1N
    /\ SubSeq(result.val, 131, 132) = <<"3", "4">>

\* C10: network_id returns None or Some for every signature, it never aborts.
C10_NetworkIdTotal ==
    op = "network_id" => result.kind \in {"None", "Some"}

====
